---- MODULE Spec2Model ----
(***************************************************************************)
(* A model of src/ts/Maps/Map.ts: the SVG path reader splitPath, the zoom  *)
(* button symbols (selectiveRoundedRect, topbutton, bottombutton) and the  *)
(* chart factory mapChart.                                                 *)
(*                                                                         *)
(* Strings are sequences of one-character strings.  JavaScript numbers are *)
(* exact decimals (splitPath) or exact multiples of 1/Scale (the symbols). *)
(***************************************************************************)
EXTENDS Integers, Sequences, FiniteSets, TLC

VARIABLES
    path,       \* splitPath: the argument, [kind, chars, items]
    toks,       \* splitPath: the tokens the path string was written from
    seps,       \* splitPath: the separators written between those tokens
    arr,        \* splitPath: the local arr handed to pathToSegments
    ret,        \* splitPath: the returned SVGPath
    splitPc,    \* "idle" | "call" | "done"
    box,        \* symbols: the bounding box [x, y, w, h]
    symCall,    \* symbols: the call made, [fn, radii, options]
    symPath,    \* symbols: the returned SVGPath
    symPc,      \* "idle" | "call" | "done"
    mc          \* mapChart: the whole state of one call, see MapInit

vars == <<path, toks, seps, arr, ret, splitPc, box, symCall, symPath, symPc, mc>>

splitVars == <<path, toks, seps, arr, ret, splitPc>>
symVars == <<box, symCall, symPath, symPc>>

(***************************************************************************)
(* Bounds of the model.                                                    *)
(***************************************************************************)
MaxLen == 4         \* longest arbitrary string given to splitPath
MaxToks == 3        \* most tokens in a path string written from tokens
MaxXY == 1          \* the box's x and y are whole numbers in -1..MaxXY
MaxWH == 2          \* the box's w and h are whole numbers in 0..MaxWH
MaxR == 2           \* corner radii are whole numbers in 0..MaxR

(***************************************************************************)
(* Character classes of the regular expressions in splitPath.              *)
(***************************************************************************)
UpperCase ==
    {"A", "B", "C", "D", "E", "F", "G", "H", "I", "J", "K", "L", "M",
     "N", "O", "P", "Q", "R", "S", "T", "U", "V", "W", "X", "Y", "Z"}

LowerCase ==
    {"a", "b", "c", "d", "e", "f", "g", "h", "i", "j", "k", "l", "m",
     "n", "o", "p", "q", "r", "s", "t", "u", "v", "w", "x", "y", "z"}

\* /[A-Za-z]/ of line 332
AsciiLetter == UpperCase \cup LowerCase

\* /[A-za-z]/ of line 342: the range A-z spans the code points 65..122, which
\* hold the six characters between Z and a as well (the backslash and the
\* grave accent, which a TLA+ string cannot hold, are left out).
ClassAza == UpperCase \cup {"[", "]", "^", "_"} \cup LowerCase

\* \s of line 334 (the characters of it that a TLA+ string can hold)
WhiteSpace == {" ", "\t", "\n", "\r", "\f"}

\* /[ ,;]+/ of line 339
SplitChars == {" ", ",", ";"}

Digits == {"0", "1", "2", "3", "4", "5", "6", "7", "8", "9"}

DigitVal(c) ==
    CASE c = "0" -> 0 [] c = "1" -> 1 [] c = "2" -> 2 [] c = "3" -> 3
      [] c = "4" -> 4 [] c = "5" -> 5 [] c = "6" -> 6 [] c = "7" -> 7
      [] c = "8" -> 8 [] c = "9" -> 9

(***************************************************************************)
(* The elements of arr: a string, a number m / 10^e, or NaN.               *)
(***************************************************************************)
StrItem(s) == [t |-> "string", s |-> s, m |-> 0, e |-> 0, nan |-> FALSE]

NaN == [t |-> "number", s |-> <<>>, m |-> 0, e |-> 0, nan |-> TRUE]

RECURSIVE Normal(_, _)
Normal(m, e) ==
    IF e > 0 /\ m % 10 = 0 THEN Normal(m \div 10, e - 1)
    ELSE [t |-> "number", s |-> <<>>, m |-> m, e |-> e, nan |-> FALSE]

NumItem(m, e) == Normal(m, e)

(***************************************************************************)
(* String.prototype.replace, split and parseFloat as splitPath uses them.  *)
(***************************************************************************)
\* .replace(/([A-Za-z])/g, SPACE $1 SPACE)
RECURSIVE MoveLettersApart(_)
MoveLettersApart(s) ==
    IF s = <<>> THEN <<>>
    ELSE (IF Head(s) \in AsciiLetter THEN <<" ", Head(s), " ">> ELSE <<Head(s)>>)
         \o MoveLettersApart(Tail(s))

\* .replace(/^\s*/, EMPTY)
RECURSIVE TrimStart(_)
TrimStart(s) ==
    IF s # <<>> /\ Head(s) \in WhiteSpace THEN TrimStart(Tail(s)) ELSE s

\* .replace(/\s*$/, EMPTY)
RECURSIVE TrimEnd(_)
TrimEnd(s) ==
    IF s # <<>> /\ s[Len(s)] \in WhiteSpace
    THEN TrimEnd(SubSeq(s, 1, Len(s) - 1)) ELSE s

\* .split(/[ ,;]+/): a maximal run of split characters ends a piece; a run at
\* the start or the end of the string leaves an empty piece there, and the
\* empty string splits into one empty piece.
RECURSIVE SplitRec(_, _, _)
SplitRec(s, cur, inRun) ==
    IF s = <<>> THEN <<cur>>
    ELSE IF Head(s) \in SplitChars
         THEN IF inRun THEN SplitRec(Tail(s), cur, TRUE)
              ELSE <<cur>> \o SplitRec(Tail(s), <<>>, TRUE)
         ELSE SplitRec(Tail(s), Append(cur, Head(s)), FALSE)

StrSplit(s) == SplitRec(s, <<>>, FALSE)

RECURSIVE DigitsLen(_)
DigitsLen(s) ==
    IF s # <<>> /\ Head(s) \in Digits THEN 1 + DigitsLen(Tail(s)) ELSE 0

RECURSIVE DigitsVal(_, _)
DigitsVal(s, acc) ==
    IF s = <<>> THEN acc ELSE DigitsVal(Tail(s), 10 * acc + DigitVal(Head(s)))

\* parseFloat(item): leading white space is skipped, then the longest prefix
\* that is a decimal literal is read ([+-] digits [. digits] or [+-] . digits)
\* and whatever follows is ignored; NaN when there is no such prefix.  An
\* exponent or "Infinity" needs a letter, and line 342 keeps every item that
\* holds a letter away from parseFloat.
ParseFloat(item) ==
    LET s0 == TrimStart(item)
        signed == s0 # <<>> /\ Head(s0) \in {"+", "-"}
        neg == s0 # <<>> /\ Head(s0) = "-"
        s1 == IF signed THEN Tail(s0) ELSE s0
        ni == DigitsLen(s1)
        s2 == SubSeq(s1, ni + 1, Len(s1))
        nf == IF s2 # <<>> /\ Head(s2) = "." THEN DigitsLen(Tail(s2)) ELSE 0
        ds == SubSeq(s1, 1, ni) \o SubSeq(s2, 2, nf + 1)
        v == DigitsVal(ds, 0)
    IN  IF ni + nf = 0 THEN NaN
        ELSE NumItem(IF neg THEN 0 - v ELSE v, nf)

\* /[A-za-z]/.test(item)
TestAza(item) == \E i \in 1..Len(item) : item[i] \in ClassAza

\* the callback of split.map, lines 341-346
MapItem(item) == IF ~TestAza(item) THEN ParseFloat(item) ELSE StrItem(item)

\* lines 330-334
Prepare(s) == TrimEnd(TrimStart(MoveLettersApart(s)))

\* lines 329-349: the array arr built from the argument
SplitArr(p) ==
    IF p.kind = "string"
    THEN LET split == StrSplit(Prepare(p.chars))
         IN  [i \in 1..Len(split) |-> MapItem(split[i])]
    ELSE p.items

\* SVGRenderer.prototype.pathToSegments: the downstream segmenter, which
\* groups the flat token sequence into one segment per command: a string
\* token opens a segment and the numbers after it belong to that segment.
RECURSIVE SegRec(_, _, _)
SegRec(a, seg, out) ==
    IF a = <<>> THEN Append(out, seg)
    ELSE IF Head(a).t = "string"
         THEN SegRec(Tail(a), <<Head(a)>>,
                     IF seg # <<>> THEN Append(out, seg) ELSE out)
         ELSE SegRec(Tail(a), Append(seg, Head(a)), out)

pathToSegments(a) == SegRec(a, <<>>, <<>>)

\* lines 324-352
splitPath(p) == pathToSegments(SplitArr(p))

(***************************************************************************)
(* Arguments of splitPath.                                                 *)
(***************************************************************************)
StringPath(chars) == [kind |-> "string", chars |-> chars, items |-> <<>>]

ArrayPath(items) == [kind |-> "array", chars |-> <<>>, items |-> items]

\* arbitrary strings: a letter, a digit, the characters of a number, split
\* characters, a white space character that is no split character, and a
\* character of A-z that is no letter
AnyChars == {"M", "1", ".", "-", " ", ",", "\t", "_"}

AnyStrings == UNION {[1..n -> AnyChars] : n \in 0..MaxLen}

\* path strings written from tokens: command letters and decimal literals,
\* each literal with the number it denotes
Tokens ==
    { [cmd |-> TRUE, text |-> <<"M">>, m |-> 0, e |-> 0],
      [cmd |-> TRUE, text |-> <<"z">>, m |-> 0, e |-> 0],
      [cmd |-> FALSE, text |-> <<"1">>, m |-> 1, e |-> 0],
      [cmd |-> FALSE, text |-> <<"-", "2">>, m |-> 0 - 2, e |-> 0],
      [cmd |-> FALSE, text |-> <<"1", ".", "5">>, m |-> 15, e |-> 1] }

\* what may stand between two tokens: runs of white space, commas and
\* semicolons, or nothing at all
Separators == {<<" ">>, <<",">>, <<";">>, <<",", " ">>, <<"\t">>, <<>>}

\* what may stand before the first and after the last token
Padding == {<<>>, <<"\n", " ">>}

TokenSeqs == UNION {[1..n -> Tokens] : n \in 1..MaxToks}

\* seps[1] stands before the first token, seps[i + 1] after token i
SepSeqs(ts) ==
    { sp \in [1..Len(ts) + 1 -> Separators \cup Padding] :
        /\ sp[1] \in Padding
        /\ sp[Len(ts) + 1] \in Padding
        /\ \A i \in 1..Len(ts) - 1 :
              /\ sp[i + 1] \in Separators
              /\ sp[i + 1] = <<>> => (ts[i].cmd \/ ts[i + 1].cmd) }

RECURSIVE Written(_, _, _)
Written(ts, sp, i) ==
    IF i > Len(ts) THEN <<>>
    ELSE ts[i].text \o sp[i + 1] \o Written(ts, sp, i + 1)

WriteString(ts, sp) == sp[1] \o Written(ts, sp, 1)

\* arrays, which splitPath hands on as they are
ArrayItems == {StrItem(<<"M">>), NumItem(1, 0)}

AnyArrays == UNION {[1..n -> ArrayItems] : n \in 0..2}

(***************************************************************************)
(* The symbols and mapChart are at rest while splitPath is looked at, and  *)
(* the other way round.                                                    *)
(***************************************************************************)
NoValue == <<>>

SplitIdle ==
    /\ path = NoValue /\ toks = NoValue /\ seps = NoValue
    /\ arr = NoValue /\ ret = NoValue /\ splitPc = "idle"

SymIdle ==
    /\ box = NoValue /\ symCall = NoValue /\ symPath = NoValue
    /\ symPc = "idle"

MapIdle == mc = NoValue

(***************************************************************************)
(* splitPath                                                               *)
(***************************************************************************)
SplitInitAny ==
    /\ path \in {StringPath(s) : s \in AnyStrings}
                 \cup {ArrayPath(a) : a \in AnyArrays}
    /\ toks = <<>>
    /\ seps = <<>>

SplitInitWritten ==
    /\ toks \in TokenSeqs
    /\ seps \in SepSeqs(toks)
    /\ path = StringPath(WriteString(toks, seps))

SplitInit ==
    /\ SplitInitAny \/ SplitInitWritten
    /\ arr = NoValue
    /\ ret = NoValue
    /\ splitPc = "call"
    /\ SymIdle
    /\ MapIdle

\* a call of splitPath, lines 324-352
CallSplitPath ==
    /\ splitPc = "call"
    /\ arr' = SplitArr(path)
    /\ ret' = splitPath(path)
    /\ splitPc' = "done"
    /\ UNCHANGED <<path, toks, seps, symVars, mc>>

SplitNext == CallSplitPath

SplitSpec == SplitInit /\ [][SplitNext]_vars

(***************************************************************************)
(* Claims about splitPath                                                  *)
(***************************************************************************)
RECURSIVE Flatten(_)
Flatten(segs) == IF segs = <<>> THEN <<>> ELSE Head(segs) \o Flatten(Tail(segs))

\* the commands and coordinates a token sequence denotes
Denoted(ts) ==
    [i \in 1..Len(ts) |->
        IF ts[i].cmd THEN StrItem(ts[i].text) ELSE NumItem(ts[i].m, ts[i].e)]

\* the tokens written with one space between them and nothing around them
SpaceSeps(ts) ==
    [i \in 1..Len(ts) + 1 |-> IF i = 1 \/ i = Len(ts) + 1 THEN <<>> ELSE <<" ">>]

WrittenCall == splitPc = "done" /\ toks # <<>>

\* every separator is empty or made of the split characters of line 339
OnlySplitChars ==
    \A i \in 2..Len(toks) : \A j \in 1..Len(seps[i]) : seps[i][j] \in SplitChars

\* C1: for every path string written from command letters and numeric
\* coordinates, the tokens of the segments splitPath returns, joined in order,
\* are the commands and coordinates of the string: none lost, added,
\* reordered or changed in value.
C1_RoundTrip == WrittenCall => Flatten(ret) = Denoted(toks)

\* C1, for the strings whose tokens are separated by spaces, commas and
\* semicolons only (or by nothing, next to a command letter)
C1_RoundTripOnSplitChars ==
    (WrittenCall /\ OnlySplitChars) => Flatten(ret) = Denoted(toks)

\* C7: the tokens splitPath reads do not depend on the separators: a string
\* written with any non-empty runs of white space (spaces, tabs, newlines),
\* commas and semicolons between its tokens, or with nothing between a command
\* letter and a number, splits into the tokens of the same string written with
\* single spaces.
C7_SeparatorsDoNotMatter ==
    WrittenCall => arr = SplitArr(StringPath(WriteString(toks, SpaceSeps(toks))))

\* C7, for separators made of spaces, commas and semicolons only
C7_SplitCharsDoNotMatter ==
    (WrittenCall /\ OnlySplitChars)
        => arr = SplitArr(StringPath(WriteString(toks, SpaceSeps(toks))))

\* C8: for every string input, each token handed to the segmenter is either a
\* string that is one ASCII letter or a number that is not NaN; no token is an
\* empty string, a string that is no letter, or NaN.
C8_FloatOrLetter ==
    (splitPc = "done" /\ path.kind = "string") =>
        \A i \in 1..Len(arr) :
            IF arr[i].t = "string"
            THEN Len(arr[i].s) = 1 /\ arr[i].s[1] \in AsciiLetter
            ELSE ~arr[i].nan

(***************************************************************************)
(* The zoom button symbols.  A number is held as the count of its          *)
(* 1/Scale-ths, so that the halved radii of the curves' control points are *)
(* exact: Num(n) is the whole number n.                                    *)
(***************************************************************************)
Scale == 2

Num(n) == Scale * n

\* r / 2, for a number held in 1/Scale-ths
Half(v) == v \div 2

Seg(c, a) == [c |-> c, a |-> a]

\* selectiveRoundedRect with the bottom side drawn at y + w instead of y + h
selectiveRoundedRectBottomAtWidth(x, y, w, h, rTopLeft, rTopRight, rBottomRight, rBottomLeft) ==
    << Seg("M", <<x + rTopLeft, y>>),
       Seg("L", <<x + w - rTopRight, y>>),
       Seg("C", <<x + w - Half(rTopRight), y,
                  x + w, y + Half(rTopRight),
                  x + w, y + rTopRight>>),
       Seg("L", <<x + w, y + h - rBottomRight>>),
       Seg("C", <<x + w, y + h - Half(rBottomRight),
                  x + w - Half(rBottomRight), y + h,
                  x + w - rBottomRight, y + h>>),
       Seg("L", <<x + rBottomLeft, y + w>>),
       Seg("C", <<x + Half(rBottomLeft), y + w,
                  x, y + h - Half(rBottomLeft),
                  x, y + h - rBottomLeft>>),
       Seg("L", <<x, y + rTopLeft>>),
       Seg("C", <<x, y + Half(rTopLeft),
                  x + Half(rTopLeft), y,
                  x + rTopLeft, y>>),
       Seg("Z", <<>>) >>

\* selectiveRoundedRect with the bottom right corner rounded by the bottom
\* left radius
selectiveRoundedRectWrongRadius(x, y, w, h, rTopLeft, rTopRight, rBottomRight, rBottomLeft) ==
    << Seg("M", <<x + rTopLeft, y>>),
       Seg("L", <<x + w - rTopRight, y>>),
       Seg("C", <<x + w - Half(rTopRight), y,
                  x + w, y + Half(rTopRight),
                  x + w, y + rTopRight>>),
       Seg("L", <<x + w, y + h - rBottomLeft>>),
       Seg("C", <<x + w, y + h - Half(rBottomLeft),
                  x + w - Half(rBottomLeft), y + h,
                  x + w - rBottomLeft, y + h>>),
       Seg("L", <<x + rBottomLeft, y + h>>),
       Seg("C", <<x + Half(rBottomLeft), y + h,
                  x, y + h - Half(rBottomLeft),
                  x, y + h - rBottomLeft>>),
       Seg("L", <<x, y + rTopLeft>>),
       Seg("C", <<x, y + Half(rTopLeft),
                  x + Half(rTopLeft), y,
                  x + rTopLeft, y>>),
       Seg("Z", <<>>) >>

\* lines 369-399
selectiveRoundedRect(x, y, w, h, rTopLeft, rTopRight, rBottomRight, rBottomLeft) ==
    << Seg("M", <<x + rTopLeft, y>>),
       \* top side
       Seg("L", <<x + w - rTopRight, y>>),
       \* top right corner
       Seg("C", <<x + w - Half(rTopRight), y,
                  x + w, y + Half(rTopRight),
                  x + w, y + rTopRight>>),
       \* right side
       Seg("L", <<x + w, y + h - rBottomRight>>),
       \* bottom right corner
       Seg("C", <<x + w, y + h - Half(rBottomRight),
                  x + w - Half(rBottomRight), y + h,
                  x + w - rBottomRight, y + h>>),
       \* bottom side
       Seg("L", <<x + rBottomLeft, y + h>>),
       \* bottom left corner
       Seg("C", <<x + Half(rBottomLeft), y + h,
                  x, y + h - Half(rBottomLeft),
                  x, y + h - rBottomLeft>>),
       \* left side
       Seg("L", <<x, y + rTopLeft>>),
       \* top left corner
       Seg("C", <<x, y + Half(rTopLeft),
                  x + Half(rTopLeft), y,
                  x + rTopLeft, y>>),
       Seg("Z", <<>>) >>

\* the optional argument options: absent, an object without r, or one with r
NoOptions == [given |-> FALSE, hasR |-> FALSE, r |-> 0]

OptionsWithoutR == [given |-> TRUE, hasR |-> FALSE, r |-> 0]

OptionsWithR(r) == [given |-> TRUE, hasR |-> TRUE, r |-> r]

\* (options && options.r) || 0 of lines 407 and 417: an absent options, a
\* missing r and the falsy r = 0 all give 0
RadiusOption(options) ==
    IF options.given /\ options.hasR /\ options.r # 0 THEN options.r ELSE 0

\* topbutton on the box as given, not moved to (x - 1, y - 1)
topbuttonNotMoved(x, y, w, h, options) ==
    LET r == RadiusOption(options)
    IN  selectiveRoundedRect(x, y, w, h, r, r, 0, 0)

\* lines 400-409
topbutton(x, y, w, h, options) ==
    LET r == RadiusOption(options)
    IN  selectiveRoundedRect(x - Num(1), y - Num(1), w, h, r, r, 0, 0)

\* lines 410-419
bottombutton(x, y, w, h, options) ==
    LET r == RadiusOption(options)
    IN  selectiveRoundedRect(x - Num(1), y - Num(1), w, h, 0, 0, r, r)

Coords == {Num(n) : n \in (0 - 1)..MaxXY}

Sizes == {Num(n) : n \in 0..MaxWH}

Radii == {Num(n) : n \in 0..MaxR}

SymOptions == {NoOptions, OptionsWithoutR} \cup {OptionsWithR(r) : r \in Radii}

NoRadii == [tl |-> 0, tr |-> 0, br |-> 0, bl |-> 0]

SymInit ==
    /\ box \in [x : Coords, y : Coords, w : Sizes, h : Sizes]
    /\ symCall = NoValue
    /\ symPath = NoValue
    /\ symPc = "call"
    /\ SplitIdle
    /\ MapIdle

\* a call of selectiveRoundedRect with any four radii
CallSelectiveRoundedRect ==
    /\ symPc = "call"
    /\ \E rd \in [tl : Radii, tr : Radii, br : Radii, bl : Radii] :
          /\ symCall' = [fn |-> "selectiveRoundedRect", radii |-> rd,
                         options |-> NoOptions]
          /\ symPath' = selectiveRoundedRect(box.x, box.y, box.w, box.h,
                                             rd.tl, rd.tr, rd.br, rd.bl)
    /\ symPc' = "done"
    /\ UNCHANGED <<box, splitVars, mc>>

\* a call of symbols.topbutton
CallTopbutton ==
    /\ symPc = "call"
    /\ \E o \in SymOptions :
          /\ symCall' = [fn |-> "topbutton", radii |-> NoRadii, options |-> o]
          /\ symPath' = topbutton(box.x, box.y, box.w, box.h, o)
    /\ symPc' = "done"
    /\ UNCHANGED <<box, splitVars, mc>>

\* a call of symbols.bottombutton
CallBottombutton ==
    /\ symPc = "call"
    /\ \E o \in SymOptions :
          /\ symCall' = [fn |-> "bottombutton", radii |-> NoRadii, options |-> o]
          /\ symPath' = bottombutton(box.x, box.y, box.w, box.h, o)
    /\ symPc' = "done"
    /\ UNCHANGED <<box, splitVars, mc>>

SymNext == CallSelectiveRoundedRect \/ CallTopbutton \/ CallBottombutton

SymSpec == SymInit /\ [][SymNext]_vars

(***************************************************************************)
(* Claims about the symbols                                                *)
(***************************************************************************)
Called(fn) == symPc = "done" /\ symCall.fn = fn

\* the outline of the plain rectangle with top left corner (x, y): every
\* corner curve has collapsed into its corner
PlainRect(x, y, w, h) ==
    << Seg("M", <<x, y>>),
       Seg("L", <<x + w, y>>),
       Seg("C", <<x + w, y, x + w, y, x + w, y>>),
       Seg("L", <<x + w, y + h>>),
       Seg("C", <<x + w, y + h, x + w, y + h, x + w, y + h>>),
       Seg("L", <<x, y + h>>),
       Seg("C", <<x, y + h, x, y + h, x, y + h>>),
       Seg("L", <<x, y>>),
       Seg("C", <<x, y, x, y, x, y>>),
       Seg("Z", <<>>) >>

\* the point a segment ends at: the last two of its numbers
EndPoint(seg) == <<seg.a[Len(seg.a) - 1], seg.a[Len(seg.a)]>>

\* C2: selectiveRoundedRect with all four radii zero gives a plain rectangle:
\* it starts at (x, y), visits the corners top left, top right, bottom right,
\* bottom left and top left again, and every curve is degenerate, its control
\* points and its end point being the corner it sits on.
C2_ZeroRadiiPlainRect ==
    (Called("selectiveRoundedRect") /\ symCall.radii = NoRadii)
        => symPath = PlainRect(box.x, box.y, box.w, box.h)

C2_Witness ==
    /\ Called("selectiveRoundedRect")
    /\ symCall.radii = NoRadii
    /\ box.w > 0 /\ box.h > 0
    /\ symPath[6].a = <<box.x, box.y + box.h>>

\* C9: for every box and radii selectiveRoundedRect returns ten segments
\* M L C L C L C L C Z; M is the top left radius point (x + rTopLeft, y); each
\* side's line ends, and each corner's curve ends, at the distance of that
\* corner's own radius from the corner along the side, going top, right,
\* bottom, left; the last curve ends at the M point, closing the outline.
C9_TenSegmentsClockwise ==
    Called("selectiveRoundedRect") =>
        LET rd == symCall.radii
            x == box.x
            y == box.y
            w == box.w
            h == box.h
        IN  /\ Len(symPath) = 10
            /\ [i \in 1..10 |-> symPath[i].c]
                  = <<"M", "L", "C", "L", "C", "L", "C", "L", "C", "Z">>
            /\ \A i \in {1, 2, 4, 6, 8} : Len(symPath[i].a) = 2
            /\ \A i \in {3, 5, 7, 9} : Len(symPath[i].a) = 6
            /\ symPath[10].a = <<>>
            /\ EndPoint(symPath[1]) = <<x + rd.tl, y>>
            /\ EndPoint(symPath[2]) = <<x + w - rd.tr, y>>
            /\ EndPoint(symPath[3]) = <<x + w, y + rd.tr>>
            /\ EndPoint(symPath[4]) = <<x + w, y + h - rd.br>>
            /\ EndPoint(symPath[5]) = <<x + w - rd.br, y + h>>
            /\ EndPoint(symPath[6]) = <<x + rd.bl, y + h>>
            /\ EndPoint(symPath[7]) = <<x, y + h - rd.bl>>
            /\ EndPoint(symPath[8]) = <<x, y + rd.tl>>
            /\ EndPoint(symPath[9]) = EndPoint(symPath[1])

C9_Witness ==
    /\ Called("selectiveRoundedRect")
    /\ Cardinality({symCall.radii.tl, symCall.radii.tr,
                    symCall.radii.br, symCall.radii.bl}) = 3
    /\ symCall.radii.tl > 0
    /\ box.w > 0 /\ box.h > 0

\* the r the claim names: options.r, and 0 when options is absent or has no r
ClaimedR(options) == IF options.given /\ options.hasR THEN options.r ELSE 0

\* C10: topbutton is selectiveRoundedRect on the box moved to (x - 1, y - 1),
\* with radius r on the two top corners and 0 on the two bottom corners;
\* bottombutton is the same with 0 on the top corners and r on the bottom ones;
\* r is options.r, 0 when options or options.r is missing or zero, and then
\* both symbols give the same plain rectangle.
C10_ButtonsRoundOnePair ==
    LET x1 == box.x - Num(1)
        y1 == box.y - Num(1)
        r == ClaimedR(symCall.options)
    IN  /\ Called("topbutton") =>
              /\ symPath = selectiveRoundedRect(x1, y1, box.w, box.h, r, r, 0, 0)
              /\ EndPoint(symPath[1]) = <<x1 + r, y1>>
              /\ EndPoint(symPath[3]) = <<x1 + box.w, y1 + r>>
              /\ EndPoint(symPath[5]) = <<x1 + box.w, y1 + box.h>>
              /\ EndPoint(symPath[7]) = <<x1, y1 + box.h>>
              /\ r = 0 => symPath = PlainRect(x1, y1, box.w, box.h)
        /\ Called("bottombutton") =>
              /\ symPath = selectiveRoundedRect(x1, y1, box.w, box.h, 0, 0, r, r)
              /\ EndPoint(symPath[1]) = <<x1, y1>>
              /\ EndPoint(symPath[3]) = <<x1 + box.w, y1>>
              /\ EndPoint(symPath[5]) = <<x1 + box.w - r, y1 + box.h>>
              /\ EndPoint(symPath[7]) = <<x1, y1 + box.h - r>>
              /\ r = 0 => symPath = PlainRect(x1, y1, box.w, box.h)

C10_Witness ==
    /\ Called("bottombutton")
    /\ symCall.options.hasR
    /\ symCall.options.r = Num(1)
    /\ symPath[5].a[3] = box.x - Num(1) + box.w - Half(Num(1))

(***************************************************************************)
(* Option trees.  A value is a leaf (a primitive, by value), an array      *)
(* (held by reference: id names the array) or a plain object (id names the *)
(* object, f maps its own keys to values).                                 *)
(***************************************************************************)
NoFields == <<>>

Leaf(v) == [k |-> "leaf", id |-> "", v |-> v, f |-> NoFields]

Arr(id) == [k |-> "arr", id |-> id, v |-> "", f |-> NoFields]

Obj(id, fields) == [k |-> "obj", id |-> id, v |-> "", f |-> fields]

Undefined == Leaf("undefined")

Null == Leaf("null")

\* an object literal or a merge result: an object that did not exist before
Fresh(fields) == Obj("fresh", fields)

\* obj[key]
Get(obj, key) == IF key \in DOMAIN obj.f THEN obj.f[key] ELSE Undefined

\* obj[key] = val
Put(obj, key, val) ==
    [obj EXCEPT !.f = [q \in DOMAIN obj.f \cup {key} |->
                          IF q = key THEN val ELSE obj.f[q]]]

\* obj.a.b.c, undefined when a step is missing
RECURSIVE Lookup(_, _)
Lookup(node, keys) ==
    IF keys = <<>> THEN node
    ELSE IF node.k # "obj" THEN Undefined
    ELSE Lookup(Get(node, Head(keys)), Tail(keys))

\* an object with the given key-value pairs, leaving out the absent ones
Absent == [k |-> "absent", id |-> "", v |-> "", f |-> NoFields]

Fields(pairs) ==
    LET present == {p \in pairs : p[2] # Absent}
    IN  [q \in {p[1] : p \in present} |-> (CHOOSE p \in present : p[1] = q)[2]]

(***************************************************************************)
(* Utilities.merge and Utilities.pick                                      *)
(***************************************************************************)
\* doCopy(copy, original): every key of original is written into copy; a
\* plain object is merged, key by key, into what copy holds there (into a new
\* object when copy holds no object there), any other value is assigned.
RECURSIVE doCopy(_, _)
doCopy(copy, original) ==
    Fresh([q \in DOMAIN copy.f \cup DOMAIN original.f |->
        IF q \notin DOMAIN original.f THEN copy.f[q]
        ELSE IF original.f[q].k = "obj"
             THEN doCopy(IF q \in DOMAIN copy.f /\ copy.f[q].k = "obj"
                         THEN copy.f[q] ELSE Fresh(NoFields),
                         original.f[q])
             ELSE original.f[q]])

\* merge(a, b): a new object, a deep copy of a with b merged over it
merge2(a, b) == doCopy(doCopy(Fresh(NoFields), a), b)

\* merge(a, b, c)
merge3(a, b, c) == doCopy(merge2(a, b), c)

\* pick(a, b): the first argument that is neither undefined nor null
pick(a, b) == IF a # Undefined /\ a # Null THEN a ELSE b

(***************************************************************************)
(* mapChart                                                                *)
(***************************************************************************)
\* the values an argument of mapChart can be: a string id, a DOM element (v
\* is its nodeName), the user's options object, a callback, or undefined
StringArg(v) == [k |-> "str", id |-> "", v |-> v, f |-> NoFields]

ElementArg(id, nodeName) == [k |-> "elem", id |-> id, v |-> nodeName, f |-> NoFields]

OptionsArg == [k |-> "ref", id |-> "user", v |-> "", f |-> NoFields]

CallbackArg == [k |-> "fn", id |-> "callback", v |-> "", f |-> NoFields]

\* the truthiness of a value
Truthy(val) ==
    val.k # "leaf" \/ val.v \notin {"undefined", "null", "false", "", "0", "NaN"}

\* (a as any).nodeName, where user is the object the options argument names
NodeNameOf(a, user) ==
    CASE a.k = "elem" -> Leaf(a.v)
      [] a.k = "ref" -> Get(user, "nodeName")
      [] OTHER -> Undefined

\* line 467 without the test of nodeName
HasRenderToArgStringOnly(a, user) == a.k = "str"

\* line 467
HasRenderToArg(a, user) == a.k = "str" \/ Truthy(NodeNameOf(a, user))

\* line 468: arguments[hasRenderToArg ? 1 : 0]
OptionsArgument(m) == IF HasRenderToArg(m.a, m.user) THEN m.b ELSE m.a

\* the object that argument is: the user's options object, or, for a value
\* that is no options object, that value with no option of its own
OptionsObject(m) ==
    IF OptionsArgument(m).k = "ref" THEN m.user
    ELSE Obj(OptionsArgument(m).id, NoFields)

\* a write through that argument reaches the user's object only when the
\* argument names it
WriteOptions(m, key, val) ==
    IF OptionsArgument(m).k = "ref" THEN Put(m.user, key, val) ELSE m.user

\* lines 470-476
hiddenAxis ==
    Fresh(Fields({ <<"endOnTick", Leaf("false")>>,
                   <<"visible", Leaf("false")>>,
                   <<"minPadding", Leaf("0")>>,
                   <<"maxPadding", Leaf("0")>>,
                   <<"startOnTick", Leaf("false")>> }))

MapTextDefault == Leaf("(c) {geojson.copyrightShort}")

MapTextFullDefault == Leaf("{geojson.copyright}")

\* lines 491-515: the first argument of merge, where credits is
\* getOptions().credits
MapDefaults(credits) ==
    Fresh(Fields({
        <<"chart", Fresh(Fields({
            <<"panning", Fresh(Fields({ <<"enabled", Leaf("true")>>,
                                        <<"type", Leaf("xy")>> }))>>,
            <<"type", Leaf("map")>> }))>>,
        <<"credits", Fresh(Fields({
            <<"mapText", pick(Get(credits, "mapText"), MapTextDefault)>>,
            <<"mapTextFull", pick(Get(credits, "mapTextFull"), MapTextFullDefault)>> }))>>,
        <<"tooltip", Fresh(Fields({ <<"followTouchMove", Leaf("false")>> }))>>,
        <<"xAxis", hiddenAxis>>,
        <<"yAxis", merge2(hiddenAxis,
                          Fresh(Fields({ <<"reversed", Leaf("true")>> })))>> }))

\* lines 518-523
ForcedOptions ==
    Fresh(Fields({
        <<"chart", Fresh(Fields({ <<"inverted", Leaf("false")>>,
                                  <<"alignTicks", Leaf("false")>> }))>> }))

\* the merge with the user's options last, over the forced options
MergedOptionsUserLast(options, credits) ==
    merge3(MapDefaults(credits), ForcedOptions, options)

\* the merge with the map defaults over the user's options
MergedOptionsDefaultsOverUser(options, credits) ==
    merge3(options, MapDefaults(credits), ForcedOptions)

\* lines 490-524
MergedOptions(options, credits) ==
    merge3(MapDefaults(credits), options, ForcedOptions)

\* line 526 left out: the series are never put back
PutBackSeriesForgotten(obj, seriesOptions) == obj

\* line 526, for each of the two objects it assigns to
PutBackSeries(obj, seriesOptions) == Put(obj, "series", seriesOptions)

\* lines 529-531: the arguments of new Chart
ChartArguments(hasRenderToArg, a, b, c, options) ==
    IF hasRenderToArg THEN <<a, options, c>> ELSE <<options, b>>

(***************************************************************************)
(* The calls of mapChart: the options the user wrote, leaving keys out or  *)
(* setting them, the three forms of the argument list, and the default     *)
(* credits with or without a mapText set by the page.                      *)
(***************************************************************************)
Written1(c) == IF c = "unset" THEN Absent ELSE Leaf(c)

UserPanning(c) ==
    CASE c = "unset" -> Absent
      [] c = "enabled" ->
            Obj("user.chart.panning", Fields({ <<"enabled", Leaf("false")>> }))
      [] c = "type" ->
            Obj("user.chart.panning", Fields({ <<"type", Leaf("x")>> }))

UserChart(ch) ==
    IF ch.inverted = "unset" /\ ch.alignTicks = "unset" /\ ch.type = "unset"
       /\ ch.panning = "unset"
    THEN Absent
    ELSE Obj("user.chart",
             Fields({ <<"inverted", Written1(ch.inverted)>>,
                      <<"alignTicks", Written1(ch.alignTicks)>>,
                      <<"type", Written1(ch.type)>>,
                      <<"panning", UserPanning(ch.panning)>> }))

Under(id, key, c) ==
    IF c = "unset" THEN Absent ELSE Obj(id, Fields({ <<key, Leaf(c)>> }))

UserOptions(ch) ==
    Obj("user",
        Fields({ <<"chart", UserChart(ch)>>,
                 <<"tooltip", Under("user.tooltip", "followTouchMove", ch.tooltip)>>,
                 <<"xAxis", Under("user.xAxis", "visible", ch.xAxis)>>,
                 <<"title", Under("user.title", "text", ch.title)>>,
                 <<"credits", Under("user.credits", "mapText", ch.credits)>>,
                 <<"series", IF ch.series = "unset" THEN Absent
                             ELSE Arr("user.series")>> }))

UserChoices ==
    [ inverted : {"unset", "true", "false"},
      alignTicks : {"unset", "true"},
      type : {"unset", "line"},
      panning : {"unset", "enabled", "type"},
      tooltip : {"unset", "true"},
      xAxis : {"unset", "true"},
      title : {"unset", "Population"},
      credits : {"unset", "by the user"},
      series : {"unset", "array"} ]

\* the argument lists <<a, b, c>>
ArgumentLists ==
    { <<StringArg("container"), OptionsArg, CallbackArg>>,
      <<StringArg(""), OptionsArg, Undefined>>,
      <<ElementArg("div", "DIV"), OptionsArg, CallbackArg>>,
      <<OptionsArg, CallbackArg, Undefined>>,
      <<OptionsArg, Undefined, Undefined>> }

\* getOptions().credits
DefaultCredits ==
    { Obj("defaultOptions.credits", Fields({ <<"enabled", Leaf("true")>> })),
      Obj("defaultOptions.credits",
          Fields({ <<"enabled", Leaf("true")>>,
                   <<"mapText", Leaf("set by the page")>> })) }

MapInit ==
    /\ \E ch \in UserChoices, al \in ArgumentLists, cr \in DefaultCredits :
          mc = [ pc |-> "detach",
                 a |-> al[1], b |-> al[2], c |-> al[3],
                 user |-> UserOptions(ch),
                 given |-> UserOptions(ch),
                 credits |-> cr,
                 seriesOptions |-> Undefined,
                 options |-> Undefined,
                 chartArgs |-> <<>> ]
    /\ SplitIdle
    /\ SymIdle

\* lines 486-488: Don't merge the data
DetachSeries ==
    /\ mc # NoValue
    /\ mc.pc = "detach"
    /\ mc' = [mc EXCEPT !.pc = "merge",
                        !.seriesOptions = Get(OptionsObject(mc), "series"),
                        !.user = WriteOptions(mc, "series", Null)]
    /\ UNCHANGED <<splitVars, symVars>>

\* lines 490-524
MergeOptions ==
    /\ mc # NoValue
    /\ mc.pc = "merge"
    /\ mc' = [mc EXCEPT !.pc = "restore",
                        !.options = MergedOptions(OptionsObject(mc), mc.credits)]
    /\ UNCHANGED <<splitVars, symVars>>

\* line 526
RestoreSeries ==
    /\ mc # NoValue
    /\ mc.pc = "restore"
    /\ mc' = [mc EXCEPT !.pc = "construct",
                        !.options = PutBackSeries(mc.options, mc.seriesOptions),
                        !.user = IF OptionsArgument(mc).k = "ref"
                                 THEN PutBackSeries(mc.user, mc.seriesOptions)
                                 ELSE mc.user]
    /\ UNCHANGED <<splitVars, symVars>>

\* lines 529-531
ConstructChart ==
    /\ mc # NoValue
    /\ mc.pc = "construct"
    /\ mc' = [mc EXCEPT !.pc = "done",
                        !.chartArgs = ChartArguments(HasRenderToArg(mc.a, mc.user),
                                                     mc.a, mc.b, mc.c, mc.options)]
    /\ UNCHANGED <<splitVars, symVars>>

MapNext == DetachSeries \/ MergeOptions \/ RestoreSeries \/ ConstructChart

MapSpec == MapInit /\ [][MapNext]_vars

(***************************************************************************)
(* Claims about mapChart                                                   *)
(***************************************************************************)
MapDone == mc # NoValue /\ mc.pc = "done"

\* the options object among the arguments Chart was constructed with
ChartOptions ==
    IF mc.chartArgs[1].k = "obj" THEN mc.chartArgs[1] ELSE mc.chartArgs[2]

\* C3: whatever the user supplied for chart.inverted and chart.alignTicks,
\* true included, the options handed to the Chart constructor have
\* chart.inverted = false and chart.alignTicks = false.
C3_ForcedOptionsWin ==
    MapDone =>
        /\ Lookup(ChartOptions, <<"chart", "inverted">>) = Leaf("false")
        /\ Lookup(ChartOptions, <<"chart", "alignTicks">>) = Leaf("false")

C3_Witness ==
    /\ MapDone
    /\ Lookup(mc.given, <<"chart", "inverted">>) = Leaf("true")
    /\ Lookup(mc.given, <<"chart", "alignTicks">>) = Leaf("true")
    /\ Lookup(ChartOptions, <<"chart", "inverted">>) = Leaf("false")

\* the option keys that are not forced, and the map default of each
UnforcedKeys ==
    { <<"chart", "type">>, <<"chart", "panning", "enabled">>,
      <<"chart", "panning", "type">>, <<"tooltip", "followTouchMove">>,
      <<"xAxis", "visible">>, <<"xAxis", "endOnTick">>, <<"xAxis", "startOnTick">>,
      <<"xAxis", "minPadding">>, <<"xAxis", "maxPadding">>,
      <<"yAxis", "visible">>, <<"yAxis", "endOnTick">>, <<"yAxis", "reversed">>,
      <<"credits", "mapText">>, <<"credits", "mapTextFull">>,
      <<"title", "text">> }

MapDefaultOf(key) ==
    CASE key = <<"chart", "type">> -> Leaf("map")
      [] key = <<"chart", "panning", "enabled">> -> Leaf("true")
      [] key = <<"chart", "panning", "type">> -> Leaf("xy")
      [] key = <<"tooltip", "followTouchMove">> -> Leaf("false")
      [] key \in {<<"xAxis", "visible">>, <<"yAxis", "visible">>} -> Leaf("false")
      [] key \in {<<"xAxis", "endOnTick">>, <<"yAxis", "endOnTick">>,
                  <<"xAxis", "startOnTick">>} -> Leaf("false")
      [] key \in {<<"xAxis", "minPadding">>, <<"xAxis", "maxPadding">>} -> Leaf("0")
      [] key = <<"yAxis", "reversed">> -> Leaf("true")
      [] key = <<"credits", "mapText">> ->
            IF "mapText" \in DOMAIN mc.credits.f
            THEN mc.credits.f["mapText"] ELSE MapTextDefault
      [] key = <<"credits", "mapTextFull">> -> MapTextFullDefault
      [] OTHER -> Undefined

UserSet(key) == Lookup(mc.given, key) # Undefined

\* C4: for every option key that is not forced, the value given to the Chart
\* constructor is the user's value when the user set the key and the map
\* default when the user did not; the merge is deep, so setting one key of a
\* nested object keeps the map defaults of its sibling keys.
C4_UserOverDefaults ==
    MapDone =>
        \A key \in UnforcedKeys :
            Lookup(ChartOptions, key) =
                IF UserSet(key) THEN Lookup(mc.given, key) ELSE MapDefaultOf(key)

C4_Witness ==
    /\ MapDone
    /\ UserSet(<<"chart", "panning", "enabled">>)
    /\ ~UserSet(<<"chart", "panning", "type">>)
    /\ UserSet(<<"xAxis", "visible">>)
    /\ Lookup(ChartOptions, <<"chart", "panning", "enabled">>) = Leaf("false")
    /\ Lookup(ChartOptions, <<"chart", "panning", "type">>) = Leaf("xy")
    /\ Lookup(ChartOptions, <<"xAxis", "visible">>) = Leaf("true")
    /\ Lookup(ChartOptions, <<"xAxis", "endOnTick">>) = Leaf("false")

\* the keys an options object of the model can hold
TopKeys == {"chart", "tooltip", "xAxis", "yAxis", "title", "credits", "series"}

\* C5: the series are detached before the merge and put back after it and
\* before Chart is constructed: the series the Chart constructor receives is
\* the very reference the user passed, and when mapChart returns the user's
\* options object holds the same series reference and, under every other key,
\* the same value as before the call.
C5_SeriesNotMerged ==
    mc # NoValue =>
        /\ mc.pc = "merge" =>
              /\ Get(mc.user, "series") = Null
              /\ mc.seriesOptions = Get(mc.given, "series")
        /\ mc.pc \in {"construct", "done"} =>
              /\ Get(mc.options, "series") = Get(mc.given, "series")
              /\ Get(mc.user, "series") = Get(mc.given, "series")
        /\ mc.pc = "done" =>
              /\ Get(ChartOptions, "series") = Get(mc.given, "series")
              /\ \A key \in TopKeys : Get(mc.user, key) = Get(mc.given, key)

C5_Witness ==
    /\ MapDone
    /\ Get(mc.given, "series") = Arr("user.series")
    /\ Get(ChartOptions, "series") = Arr("user.series")
    /\ UserSet(<<"chart", "type">>)

Init == SplitInit \/ SymInit \/ MapInit

Next == SplitNext \/ SymNext \/ MapNext

Spec == Init /\ [][Next]_vars

====
